---- MODULE Spec2Model ----
(***************************************************************************)
(* bike-trainer-rs: the consumer (App, src/src/app.rs) and the three       *)
(* background tasks it spawns on the tokio runtime: the discovery task     *)
(* (App::start_discover), the connect task (App::connect) and the session  *)
(* task (BT::connect, src/src/trainer.rs).  They meet only at channels:    *)
(* two bounded mpsc channels and two oneshot channels.                     *)
(***************************************************************************)
EXTENDS Integers, Sequences, FiniteSets, TLC

\* ------------------------------------------------------------------ bounds

\* Capacities of the two mpsc channels.  The source creates both with
\* mpsc::channel(1024) (app.rs:177, trainer.rs:39); the model scales the
\* capacities down so that a full channel and a blocked sender are reached.
\* The telemetry channel holds two updates, so that more updates can wait
\* in it than one repaint request brings frames.
ChannelCapacity == 1

TelemetryCapacity == 2

\* Number of sightings the scan stream yields in a run.
MaxScan == 2

\* Number of items the notification stream yields in a run.
MaxNotif == 3

\* ------------------------------------------------------------- data values

None == "None"
Some == "Some"

\* A device whose name() call fails has no usable name.
NoName == "<no name>"

\* AdvertisingDevice values the scan can yield: two sightings share a display
\* name, one has no name.
Sightings ==
    { [name |-> "KICKR", id |-> 1],
      [name |-> "KICKR", id |-> 2],
      [name |-> NoName,  id |-> 3] }

\* device.device.name().unwrap_or("UNKNOWN".into())
DisplayName(device) == IF device.name = NoName THEN "UNKNOWN" ELSE device.name

Names == { DisplayName(d) : d \in Sightings }

\* HashMap::new()
EmptyMap == << >>

\* A map that keeps the first value written under a key.
MapInsertIfAbsent(m, k, v) ==
    [x \in (DOMAIN m) \cup {k} |-> IF x \in DOMAIN m THEN m[x] ELSE v]

\* HashMap::insert: the entry for key k becomes v, every other entry stays.
MapInsert(m, k, v) ==
    [x \in (DOMAIN m) \cup {k} |-> IF x = k THEN v ELSE m[x]]

\* --------------------------------------------------------------- variables

VARIABLES
    \* the consumer: struct App
    host,               \* the host's radio: is there an adapter, does it
                        \* become available
    appPc,              \* "start" | "running" | "crashed"
    initResult,         \* outcome of BT::init: "none" | "Ok" | "Err" | "panic"
    discover_rx,        \* None | Some
    discover_stop,      \* None | Some
    devices,            \* display name -> AdvertisingDevice
    connecting,         \* BOOLEAN
    connected_device,   \* None | Some (the telemetry receiver)
    connected_rx,       \* None | Some (the connect-result oneshot receiver)
    current_speed,
    current_power,
    historical_speeds,
    historical_powers,
    telemetryPoll,      \* result of the last try_recv on the telemetry channel
    connectedPoll,      \* result of the last try_recv on the connect oneshot
    \* the discovery task and its channels
    discPc,             \* "idle" | "scan" | "select" | "send" | "stopped" | "panicked"
    discDevice,         \* the sighting the task is forwarding, or None
    discChan,           \* contents of the discovery channel
    stopSignal,         \* the stop oneshot: "none" | "open" | "sent"
    scanTaken,          \* history: sightings taken from the scan stream
    discEnqueued,       \* history: number of sightings put on the channel
    discReceived,       \* history: sightings the consumer received
    sentAtStop,         \* history: discEnqueued when the stop signal was sent
    discSpawned,        \* history: number of discovery tasks spawned
    \* the connect task and its oneshot
    connPc,             \* "idle" | "connect_device" | "done" | "panicked"
    connFail,           \* the error the connect task panicked on
    connOneshot,        \* "none" | "open" | "sent" | "taken" | "closed"
    connSpawned,        \* history: number of connect tasks spawned
    \* the session task and the telemetry channel
    sessPc,             \* "idle" | "services" | "characteristics" | "notify"
                        \* | "next" | "send" | "done" | "panicked"
    sessExit,           \* why the session task ended, "none" while it runs
    update,             \* the notification payload being handled, or None
    pendingUpdate,      \* the TrainerUpdate being sent, or None
    telemChan,          \* contents of the telemetry channel
    telemTx,            \* the sending half: "none" | "alive" | "dropped"
    notified,           \* history: items taken from the notification stream
    repaints,           \* history: number of ctx.request_repaint() calls
                        \* made by the session task
    repaintRequested    \* egui Context: a repaint is requested

appVars == << host, appPc, initResult, discover_rx, discover_stop, devices,
              connecting, connected_device, connected_rx, current_speed,
              current_power, historical_speeds, historical_powers,
              telemetryPoll, connectedPoll >>

discVars == << discPc, discDevice, discChan, stopSignal, scanTaken,
               discEnqueued, discReceived, sentAtStop, discSpawned >>

connVars == << connPc, connFail, connOneshot, connSpawned >>

sessVars == << sessPc, sessExit, update, pendingUpdate, telemChan, telemTx,
               notified, repaints, repaintRequested >>

vars == << appVars, discVars, connVars, sessVars >>

\* --------------------------------------------------------------- channels

\* A receiver that never learns that its senders are gone.
TryRecvNeverClosed(queue, senderAlive) ==
    IF queue # << >>
    THEN [res |-> "Ok", val |-> Head(queue), rest |-> Tail(queue)]
    ELSE [res |-> "Empty", val |-> None, rest |-> queue]

\* tokio mpsc Receiver::try_recv: a queued value first; with the queue empty,
\* Empty while a sender is alive and Disconnected once every sender is gone.
TryRecv(queue, senderAlive) ==
    IF queue # << >>
    THEN [res |-> "Ok", val |-> Head(queue), rest |-> Tail(queue)]
    ELSE [res |-> IF senderAlive THEN "Empty" ELSE "Disconnected",
          val |-> None, rest |-> queue]

\* mpsc Sender::send(..).await completes only when the channel has room.
HasRoom(queue) == Len(queue) < ChannelCapacity

TelemetryHasRoom(queue) == Len(queue) < TelemetryCapacity

\* ------------------------------------------------------------ the consumer

\* The part of the state a frame of the consumer reads and writes.
World ==
    [ appPc |-> appPc, discover_rx |-> discover_rx,
      discover_stop |-> discover_stop, devices |-> devices,
      connecting |-> connecting, connected_device |-> connected_device,
      connected_rx |-> connected_rx, current_speed |-> current_speed,
      current_power |-> current_power,
      historical_speeds |-> historical_speeds,
      historical_powers |-> historical_powers,
      telemetryPoll |-> telemetryPoll, connectedPoll |-> connectedPoll,
      discPc |-> discPc, discChan |-> discChan, stopSignal |-> stopSignal,
      discReceived |-> discReceived, sentAtStop |-> sentAtStop,
      discSpawned |-> discSpawned,
      connPc |-> connPc, connOneshot |-> connOneshot,
      connSpawned |-> connSpawned,
      repaintRequested |-> repaintRequested,
      telemChan |-> telemChan ]

\* The receiving half of the stop oneshot lives in the discovery task and is
\* dropped when the task ends, by the break or by a panic.
StopRxAlive(s) == s.discPc \in {"scan", "select", "send"}

\* App::start_discover: a new channel and a new stop oneshot, the task spawned.
start_discover(s) ==
    [s EXCEPT !.discChan = << >>,
              !.stopSignal = "open",
              !.discPc = "scan",
              !.discSpawned = @ + 1,
              !.discover_rx = Some,
              !.discover_stop = Some]

\* A stop_discover that also gives up the discovery receiver, so that the
\* Discover button is shown again while the task may still be running.
stop_discover_and_forget(s) ==
    LET cleared == [s EXCEPT !.devices = EmptyMap, !.discover_stop = None,
                             !.discover_rx = None]
    IN  IF s.discover_stop = None THEN cleared
        ELSE IF StopRxAlive(s)
             THEN [cleared EXCEPT !.stopSignal = "sent",
                                  !.sentAtStop = discEnqueued]
             ELSE [cleared EXCEPT !.appPc = "crashed"]

\* App::stop_discover: the registry cleared, the stop sender taken and used;
\* tx.send(()).unwrap() panics when the receiving half is gone.
stop_discover(s) ==
    LET cleared == [s EXCEPT !.devices = EmptyMap, !.discover_stop = None]
    IN  IF s.discover_stop = None THEN cleared
        ELSE IF StopRxAlive(s)
             THEN [cleared EXCEPT !.stopSignal = "sent",
                                  !.sentAtStop = discEnqueued]
             ELSE [cleared EXCEPT !.appPc = "crashed"]

\* An App::connect that does not set the connecting flag.
connect_without_flag(s, device) ==
    [s EXCEPT !.connOneshot = "open",
              !.connected_rx = Some,
              !.connPc = "connect_device",
              !.connSpawned = @ + 1]

\* App::connect: the connecting flag set, a new connect oneshot, the connect
\* task spawned on the chosen registry entry.
connect(s, device) ==
    [s EXCEPT !.connecting = TRUE,
              !.connOneshot = "open",
              !.connected_rx = Some,
              !.connPc = "connect_device",
              !.connSpawned = @ + 1]

\* App::render_setup_screen: the Discover / Stop Discovery button, then the
\* spinner while connecting and the device links otherwise.  click is
\* "none", "button" or a link's name.  The spinner is animated: showing it
\* requests a repaint.
render_setup_screen(s, click) ==
    LET s1 == IF click # "button" THEN s
              ELSE IF s.discover_rx = Some THEN stop_discover(s)
                   ELSE start_discover(s)
    IN  IF s1.appPc # "running" THEN s1
        ELSE IF s1.connecting THEN [s1 EXCEPT !.repaintRequested = TRUE]
        ELSE IF click \in DOMAIN s1.devices THEN connect(s1, click)
        ELSE s1

\* App::update_discovery: one try_recv on each of the telemetry channel, the
\* discovery channel and the connect oneshot.
update_discovery(s) ==
    LET t  == TryRecv(s.telemChan, telemTx = "alive")
        s1 == IF s.connected_device = None THEN s
              ELSE IF t.res = "Ok"
                   THEN [s EXCEPT !.telemChan = t.rest,
                                  !.telemetryPoll = t.res,
                                  !.current_speed = t.val.speed,
                                  !.current_power = t.val.power,
                                  !.historical_powers = Append(@, t.val.power),
                                  !.historical_speeds = Append(@, t.val.speed)]
                   ELSE [s EXCEPT !.telemetryPoll = t.res]
        d  == TryRecv(s1.discChan, s1.discPc \in {"scan", "select", "send"})
        s2 == IF s1.discover_rx = Some /\ d.res = "Ok"
              THEN [s1 EXCEPT !.discChan = d.rest,
                              !.discReceived = Append(@, d.val),
                              !.devices = MapInsert(@, DisplayName(d.val), d.val)]
              ELSE s1
    IN  IF s2.connected_rx = None THEN s2
        ELSE IF s2.connOneshot = "sent"
             THEN [s2 EXCEPT !.connOneshot = "taken",
                             !.connectedPoll = "Ok",
                             !.connected_device = Some,
                             !.connecting = FALSE]
             ELSE [s2 EXCEPT !.connectedPoll =
                       IF s2.connOneshot = "open" THEN "Empty" ELSE "Closed"]

\* App::update: the screen for the current state, then update_discovery; a
\* panic in a click handler ends the frame.  The frame serves the repaint
\* requests made before it.
update_frame(s, click) ==
    LET s0 == [s EXCEPT !.repaintRequested = FALSE]
        r  == IF s0.connected_device = Some THEN s0
              ELSE render_setup_screen(s0, click)
    IN  IF r.appPc = "running" THEN update_discovery(r) ELSE r

\* The state after a frame; s is the frame's result, computed once.
Install(w) ==
    \E s \in {w} :
        /\ appPc' = s.appPc
        /\ discover_rx' = s.discover_rx
        /\ discover_stop' = s.discover_stop
        /\ devices' = s.devices
        /\ connecting' = s.connecting
        /\ connected_device' = s.connected_device
        /\ connected_rx' = s.connected_rx
        /\ current_speed' = s.current_speed
        /\ current_power' = s.current_power
        /\ historical_speeds' = s.historical_speeds
        /\ historical_powers' = s.historical_powers
        /\ telemetryPoll' = s.telemetryPoll
        /\ connectedPoll' = s.connectedPoll
        /\ discPc' = s.discPc
        /\ discChan' = s.discChan
        /\ stopSignal' = s.stopSignal
        /\ discReceived' = s.discReceived
        /\ sentAtStop' = s.sentAtStop
        /\ discSpawned' = s.discSpawned
        /\ connSpawned' = s.connSpawned
        /\ repaintRequested' = s.repaintRequested
        /\ connPc' = s.connPc
        /\ connOneshot' = s.connOneshot
        /\ telemChan' = s.telemChan
        /\ UNCHANGED << host, initResult, discDevice, scanTaken, discEnqueued,
                        connFail, sessPc, sessExit, update, pendingUpdate,
                        telemTx, notified, repaints >>

\* ------------------------------------------------------------ construction

Init ==
    /\ host \in [adapter : BOOLEAN, available : {"Ok", "Err"}]
    /\ appPc = "start"
    /\ initResult = "none"
    /\ discover_rx = None
    /\ discover_stop = None
    /\ devices = EmptyMap
    /\ connecting = FALSE
    /\ connected_device = None
    /\ connected_rx = None
    /\ current_speed = 0
    /\ current_power = 0
    /\ historical_speeds = << >>
    /\ historical_powers = << >>
    /\ telemetryPoll = "none"
    /\ connectedPoll = "none"
    /\ discPc = "idle"
    /\ discDevice = None
    /\ discChan = << >>
    /\ stopSignal = "none"
    /\ scanTaken = << >>
    /\ discEnqueued = 0
    /\ discReceived = << >>
    /\ sentAtStop = 0
    /\ discSpawned = 0
    /\ connSpawned = 0
    /\ connPc = "idle"
    /\ connFail = "none"
    /\ connOneshot = "none"
    /\ sessPc = "idle"
    /\ sessExit = "none"
    /\ update = None
    /\ pendingUpdate = None
    /\ telemChan = << >>
    /\ telemTx = "none"
    /\ notified = << >>
    /\ repaints = 0
    /\ repaintRequested = FALSE

\* BT::init: Adapter::default().await.ok_or(..).unwrap() panics without an
\* adapter; wait_available().await? returns the radio's error to the caller.
bt_init(h) ==
    IF ~h.adapter THEN "panic"
    ELSE IF h.available = "Err" THEN "Err"
    ELSE "Ok"

\* App::default: rt.block_on(BT::init().await.unwrap()), then the fields.
AppDefault ==
    /\ appPc = "start"
    /\ initResult' = bt_init(host)
    /\ appPc' = IF bt_init(host) = "Ok" THEN "running" ELSE "crashed"
    /\ UNCHANGED << host, discover_rx, discover_stop, devices, connecting,
                    connected_device, connected_rx, current_speed,
                    current_power, historical_speeds, historical_powers,
                    telemetryPoll, connectedPoll, discVars, connVars,
                    sessVars >>

Running == appPc = "running"

\* ------------------------------------------------------------------ frames

\* A frame without input.
Frame ==
    /\ Running
    /\ Install(update_frame(World, "none"))

\* A frame in which the Discover button is clicked.
FrameClickDiscover ==
    /\ Running
    /\ connected_device = None
    /\ discover_rx = None
    /\ Install(update_frame(World, "button"))

\* A frame in which the Stop Discovery button is clicked.
FrameClickStopDiscovery ==
    /\ Running
    /\ connected_device = None
    /\ discover_rx = Some
    /\ Install(update_frame(World, "button"))

\* A frame in which the link of a listed device is clicked.
FrameClickDevice ==
    /\ Running
    /\ connected_device = None
    /\ ~connecting
    /\ \E k \in DOMAIN devices : Install(update_frame(World, k))

\* ------------------------------------------------------ the discovery task

\* bt.discover_devices().await.unwrap()
DiscoverScan ==
    /\ Running
    /\ discPc = "scan"
    /\ \E ok \in BOOLEAN : discPc' = IF ok THEN "select" ELSE "panicked"
    /\ UNCHANGED << appVars, discDevice, discChan, stopSignal, scanTaken,
                    discEnqueued, discReceived, sentAtStop, discSpawned,
                    connVars, sessVars >>

\* select!: the branch Some(device) = device_stream.next().  select! polls
\* its branches in random order, so this branch can be taken whether or not
\* the stop signal is ready.
DiscoverSelectDevice ==
    /\ Running
    /\ discPc = "select"
    /\ Len(scanTaken) < MaxScan
    /\ \E device \in Sightings :
          /\ discDevice' = device
          /\ scanTaken' = Append(scanTaken, device)
    /\ discPc' = "send"
    /\ UNCHANGED << appVars, discChan, stopSignal, discEnqueued, discReceived,
                    sentAtStop, discSpawned, connVars, sessVars >>

\* select!: the branch _ = &mut rx_stop, then break.
DiscoverSelectStop ==
    /\ Running
    /\ discPc = "select"
    /\ stopSignal = "sent"
    /\ discPc' = "stopped"
    /\ UNCHANGED << appVars, discDevice, discChan, stopSignal, scanTaken,
                    discEnqueued, discReceived, sentAtStop, discSpawned,
                    connVars, sessVars >>

\* A discovery task that uses try_send: a sighting that finds the channel
\* full is dropped.
DiscoverTrySend ==
    /\ Running
    /\ discPc = "send"
    /\ IF HasRoom(discChan)
       THEN /\ discChan' = Append(discChan, discDevice)
            /\ discEnqueued' = discEnqueued + 1
       ELSE UNCHANGED << discChan, discEnqueued >>
    /\ discDevice' = None
    /\ discPc' = "select"
    /\ UNCHANGED << appVars, stopSignal, scanTaken, discReceived, sentAtStop,
                    discSpawned, connVars, sessVars >>

\* A discovery task whose send is raced against the stop signal: a stop that
\* arrives while the item waits cancels the send and ends the task.
DiscoverSendOrStop ==
    /\ Running
    /\ discPc = "send"
    /\ IF stopSignal = "sent"
       THEN /\ discPc' = "stopped"
            /\ UNCHANGED << discChan, discEnqueued >>
       ELSE /\ HasRoom(discChan)
            /\ discChan' = Append(discChan, discDevice)
            /\ discEnqueued' = discEnqueued + 1
            /\ discPc' = "select"
    /\ discDevice' = None
    /\ UNCHANGED << appVars, stopSignal, scanTaken, discReceived, sentAtStop,
                    discSpawned, connVars, sessVars >>

\* tx.send(device).await.unwrap(): waits for room; the receiver is held by
\* the consumer for as long as it runs.
DiscoverSend ==
    /\ Running
    /\ discPc = "send"
    /\ HasRoom(discChan)
    /\ discChan' = Append(discChan, discDevice)
    /\ discEnqueued' = discEnqueued + 1
    /\ discDevice' = None
    /\ discPc' = "select"
    /\ UNCHANGED << appVars, stopSignal, scanTaken, discReceived, sentAtStop,
                    discSpawned, connVars, sessVars >>

\* -------------------------------------------------------- the connect task

\* bt.connect(device, ctx).await.unwrap(): adapter.connect_device(..).await?
\* returns the error, which the unwrap turns into a panic that drops the
\* oneshot sender; on success the channel is created, the session task is
\* spawned and Ok(rx) returned.
ConnectDevice ==
    /\ Running
    /\ connPc = "connect_device"
    /\ \E ok \in BOOLEAN :
          IF ok
          THEN /\ connPc' = "send_result"
               /\ telemChan' = << >>
               /\ telemTx' = "alive"
               /\ sessPc' = "services"
               /\ UNCHANGED << connFail, connOneshot >>
          ELSE /\ connPc' = "panicked"
               /\ connFail' = "ConnectFailure"
               /\ connOneshot' = "closed"
               /\ UNCHANGED << telemChan, telemTx, sessPc >>
    /\ UNCHANGED << appVars, discVars, connSpawned, sessExit, update,
                    pendingUpdate, notified, repaints,
                    repaintRequested >>

\* tx.send(trainer): the telemetry receiver handed to the consumer.
ConnectSendResult ==
    /\ Running
    /\ connPc = "send_result"
    /\ connOneshot' = "sent"
    /\ connPc' = "done"
    /\ UNCHANGED << appVars, discVars, connFail, connSpawned, sessVars >>

\* -------------------------------------------------------- the session task

\* A panic or the end of the task drops tx, the only sender.
SessionEnds(pc, why) ==
    /\ sessPc' = pc
    /\ sessExit' = why
    /\ telemTx' = "dropped"

\* device.device.services().await.unwrap(), then find(FITNESS_MACHINE).unwrap()
SessionServices ==
    /\ Running
    /\ sessPc = "services"
    /\ \E r \in {"Ok", "ServicesError", "ServiceNotFound"} :
          IF r = "Ok"
          THEN /\ sessPc' = "characteristics"
               /\ UNCHANGED << sessExit, telemTx >>
          ELSE SessionEnds("panicked", r)
    /\ UNCHANGED << appVars, discVars, connVars, update, pendingUpdate,
                    telemChan, notified, repaints,
                    repaintRequested >>

\* ftms.characteristics().await.unwrap(), then find(INDOOR_BIKE_DATA).unwrap()
SessionCharacteristics ==
    /\ Running
    /\ sessPc = "characteristics"
    /\ \E r \in {"Ok", "CharacteristicsError", "CharacteristicNotFound"} :
          IF r = "Ok"
          THEN /\ sessPc' = "notify"
               /\ UNCHANGED << sessExit, telemTx >>
          ELSE SessionEnds("panicked", r)
    /\ UNCHANGED << appVars, discVars, connVars, update, pendingUpdate,
                    telemChan, notified, repaints,
                    repaintRequested >>

\* bike_data.notify().await.unwrap()
SessionNotify ==
    /\ Running
    /\ sessPc = "notify"
    /\ \E r \in {"Ok", "SubscriptionFailure"} :
          IF r = "Ok"
          THEN /\ sessPc' = "next"
               /\ UNCHANGED << sessExit, telemTx >>
          ELSE SessionEnds("panicked", r)
    /\ UNCHANGED << appVars, discVars, connVars, update, pendingUpdate,
                    telemChan, notified, repaints,
                    repaintRequested >>

\* Notification payloads: byte sequences, bytes in 0..255.
Payloads ==
    { << 0, 0, 16, 0, 100, 0 >>,
      << 2, 68, 1, 2, 255, 255, 90, 0 >>,
      << 0, 0, 16, 0, 100 >> }

\* Items of the notification stream: Ok(bytes) or Err(_).
NotifItems ==
    { [ok |-> TRUE, bytes |-> b] : b \in Payloads }
        \cup { [ok |-> FALSE, bytes |-> << >>] }

\* update[i] on a Vec<u8>: offsets count from 0; an offset past the end panics.
InBounds(bytes, i) == i < Len(bytes)
At(bytes, i) == bytes[i + 1]

\* The bytes taken in the other order.
from_be_bytes(lo, hi) == (hi + lo * 256) % 65536

\* u16::from_le_bytes([lo, hi])
from_le_bytes(lo, hi) == (lo + hi * 256) % 65536

\* let speed = u16::from_le_bytes([update[2], update[3]]);
\* let power = u16::from_le_bytes([update[4], update[5]]);
DecodePanics(bytes) == \E i \in {2, 3, 4, 5} : ~InBounds(bytes, i)

Decode(bytes) ==
    [ speed |-> from_le_bytes(At(bytes, 2), At(bytes, 3)),
      power |-> from_le_bytes(At(bytes, 4), At(bytes, 5)) ]

\* A session task that unwraps each item of the stream: an Err item panics.
SessionNextUnwrap ==
    /\ Running
    /\ sessPc = "next"
    /\ Len(notified) < MaxNotif
    /\ \E item \in NotifItems :
          /\ notified' = Append(notified, item)
          /\ IF ~item.ok
             THEN /\ SessionEnds("panicked", "NotificationError")
                  /\ UNCHANGED << update, pendingUpdate >>
             ELSE IF DecodePanics(item.bytes)
                  THEN /\ SessionEnds("panicked", "IndexOutOfBounds")
                       /\ update' = item.bytes
                       /\ UNCHANGED pendingUpdate
                  ELSE /\ sessPc' = "send"
                       /\ update' = item.bytes
                       /\ pendingUpdate' = Decode(item.bytes)
                       /\ UNCHANGED << sessExit, telemTx >>
    /\ UNCHANGED << appVars, discVars, connVars, telemChan, repaints,
                    repaintRequested >>

\* while let Some(update) = stream.next().await: an item arrives.  An Err
\* item is skipped; an Ok item is decoded, and indexing past the end of the
\* payload panics.
SessionNext ==
    /\ Running
    /\ sessPc = "next"
    /\ Len(notified) < MaxNotif
    /\ \E item \in NotifItems :
          /\ notified' = Append(notified, item)
          /\ IF ~item.ok
             THEN UNCHANGED << sessPc, sessExit, telemTx, update,
                               pendingUpdate >>
             ELSE IF DecodePanics(item.bytes)
                  THEN /\ SessionEnds("panicked", "IndexOutOfBounds")
                       /\ update' = item.bytes
                       /\ UNCHANGED pendingUpdate
                  ELSE /\ sessPc' = "send"
                       /\ update' = item.bytes
                       /\ pendingUpdate' = Decode(item.bytes)
                       /\ UNCHANGED << sessExit, telemTx >>
    /\ UNCHANGED << appVars, discVars, connVars, telemChan, repaints,
                    repaintRequested >>

\* stream.next() yields None: the device has disconnected, the loop ends.
SessionStreamEnd ==
    /\ Running
    /\ sessPc = "next"
    /\ SessionEnds("done", "StreamEnded")
    /\ UNCHANGED << appVars, discVars, connVars, update, pendingUpdate,
                    telemChan, notified, repaints,
                    repaintRequested >>

\* The consumer holds the telemetry receiver for as long as it runs.
TelemRxAlive == Running

\* A session task that uses try_send: an update that finds the channel full
\* is dropped.
SessionTrySend ==
    /\ Running
    /\ sessPc = "send"
    /\ IF TelemetryHasRoom(telemChan)
       THEN /\ telemChan' = Append(telemChan, pendingUpdate)
            /\ repaints' = repaints + 1
            /\ repaintRequested' = TRUE
       ELSE UNCHANGED << telemChan, repaints, repaintRequested >>
    /\ sessPc' = "next"
    /\ update' = None
    /\ pendingUpdate' = None
    /\ UNCHANGED << appVars, discVars, connVars, notified, sessExit, telemTx >>

\* A session task that sends without notifying the display layer.
SessionSendSilent ==
    /\ Running
    /\ sessPc = "send"
    /\ TelemetryHasRoom(telemChan)
    /\ telemChan' = Append(telemChan, pendingUpdate)
    /\ sessPc' = "next"
    /\ update' = None
    /\ pendingUpdate' = None
    /\ UNCHANGED << appVars, discVars, connVars, notified, sessExit, telemTx,
                    repaints, repaintRequested >>

\* tx.send(TrainerUpdate::Power { speed, power }).await, then
\* ctx.request_repaint(); a failed send breaks out of the loop.
SessionSend ==
    /\ Running
    /\ sessPc = "send"
    /\ IF ~TelemRxAlive
       THEN /\ SessionEnds("done", "ChannelClosed")
            /\ UNCHANGED << telemChan, repaints, repaintRequested >>
       ELSE /\ TelemetryHasRoom(telemChan)
            /\ telemChan' = Append(telemChan, pendingUpdate)
            /\ repaints' = repaints + 1
            /\ repaintRequested' = TRUE
            /\ sessPc' = "next"
            /\ UNCHANGED << sessExit, telemTx >>
    /\ update' = None
    /\ pendingUpdate' = None
    /\ UNCHANGED << appVars, discVars, connVars, notified >>

\* ----------------------------------------------------------- specification

Next ==
    \/ AppDefault
    \/ Frame
    \/ FrameClickDiscover
    \/ FrameClickStopDiscovery
    \/ FrameClickDevice
    \/ DiscoverScan
    \/ DiscoverSelectDevice
    \/ DiscoverSelectStop
    \/ DiscoverSend
    \/ ConnectDevice
    \/ ConnectSendResult
    \/ SessionServices
    \/ SessionCharacteristics
    \/ SessionNotify
    \/ SessionNext
    \/ SessionStreamEnd
    \/ SessionSend

Spec == Init /\ [][Next]_vars

\* The consumer, the discovery task and the connect task, without the steps
\* of the session task: what the discovery channel and the stop signal
\* depend on.
DiscoveryNext ==
    \/ AppDefault
    \/ Frame
    \/ FrameClickDiscover
    \/ FrameClickStopDiscovery
    \/ FrameClickDevice
    \/ DiscoverScan
    \/ DiscoverSelectDevice
    \/ DiscoverSelectStop
    \/ DiscoverSend
    \/ ConnectDevice
    \/ ConnectSendResult

\* The scheduling the runtimes give: the frame loop keeps running frames, the
\* tokio runtime keeps polling a spawned task that can proceed, and select!
\* picks the branch it polls first at random, so a stop branch that is ready
\* at every iteration is eventually the one taken.
FairSpec ==
    /\ Init
    /\ [][DiscoveryNext]_vars
    /\ WF_vars(Frame)
    /\ WF_vars(DiscoverScan)
    /\ WF_vars(DiscoverSend)
    /\ SF_vars(DiscoverSelectStop)

\* ------------------------------------------------------------ the claims

\* The reading a payload carries by the wire format: speed at offsets 2..3
\* and power at offsets 4..5, low byte first (sequences count from 1).
Reading(bytes) ==
    [ speed |-> bytes[3] + 256 * bytes[4],
      power |-> bytes[5] + 256 * bytes[6] ]

WellFormed(item) == item.ok /\ Len(item.bytes) >= 6

\* The readings of the well-formed items of a notification history, in order.
RECURSIVE ExpectedUpdates(_)
ExpectedUpdates(items) ==
    IF items = << >> THEN << >>
    ELSE IF WellFormed(Head(items))
         THEN << Reading(Head(items).bytes) >> \o ExpectedUpdates(Tail(items))
         ELSE ExpectedUpdates(Tail(items))

\* Payloads that agree with bytes at offsets 2..5 and differ elsewhere.
Variants(bytes) ==
    { [bytes EXCEPT ![1] = x, ![2] = y] : x, y \in {0, 255} }
        \cup { SubSeq(bytes, 1, 6) }
        \cup { bytes \o tail : tail \in { << 0 >>, << 255, 7 >> } }

\* The consumer's history as updates.
History ==
    [ i \in 1..Len(historical_speeds) |->
        [speed |-> historical_speeds[i], power |-> historical_powers[i]] ]

\* C1: a payload of at least 6 bytes decodes to speed = b[2] + 256*b[3] and
\* power = b[4] + 256*b[5], both in 0..65535, whatever the bytes at offsets
\* 0, 1 and 6 onward are; [0,0,0x10,0x00,0x64,0x00] gives speed 16, power 100.
C1_DecodeLittleEndian ==
    /\ sessExit = "IndexOutOfBounds" => Len(update) < 6
    /\ sessPc = "send" =>
          /\ Len(update) >= 6
          /\ pendingUpdate = Reading(update)
          /\ pendingUpdate.speed \in 0..65535
          /\ pendingUpdate.power \in 0..65535
          /\ \A b \in Variants(update) :
                ~DecodePanics(b) /\ Decode(b) = pendingUpdate
          /\ update = << 0, 0, 16, 0, 100, 0 >>
                => pendingUpdate = [speed |-> 16, power |-> 100]

\* C1 witness: a payload with other bytes at offsets 0, 1, 6 and 7 is decoded.
C1_Witness ==
    /\ sessPc = "send"
    /\ update = << 2, 68, 1, 2, 255, 255, 90, 0 >>
    /\ pendingUpdate = [speed |-> 513, power |-> 65535]

\* C2: a payload shorter than 6 bytes makes the decode fail with an error
\* value; the session task does not panic on an index past the payload's end.
C2_ShortPayloadIsAnError ==
    (update # None /\ Len(update) < 6) =>
        ~(sessPc = "panicked" /\ sessExit = "IndexOutOfBounds")

\* C3: after a malformed payload the session task stays alive with its
\* channel open; the sending half is dropped only by the end of the stream
\* or by a closed channel.
C3_SessionSurvivesMalformedPayload ==
    (\E i \in DOMAIN notified :
        notified[i].ok /\ Len(notified[i].bytes) < 6)
      => (telemTx = "alive" \/ sessExit \in {"StreamEnded", "ChannelClosed"})

\* C4: what the consumer has taken, then what the channel holds, then the
\* update the task is sending, are together the readings of the notifications
\* in the order the device sent them: nothing is reordered, duplicated or
\* dropped; and the channel never holds more than its capacity.
C4_TelemetryFifoNoLoss ==
    /\ Len(historical_speeds) = Len(historical_powers)
    /\ Len(telemChan) <= TelemetryCapacity
    /\ History \o telemChan
         \o (IF sessPc = "send" THEN << pendingUpdate >> ELSE << >>)
       = ExpectedUpdates(notified)

\* C4 witness: the channel is full and the session task is blocked sending a
\* further, different update.
C4_Witness ==
    /\ Len(telemChan) = TelemetryCapacity
    /\ sessPc = "send"
    /\ pendingUpdate # telemChan[Len(telemChan)]

SetupFailures ==
    { "ServicesError", "ServiceNotFound", "CharacteristicsError",
      "CharacteristicNotFound", "SubscriptionFailure" }

\* C5: the consumer holds a telemetry receiver (the connect succeeded) only
\* for a session whose service, characteristic and subscription did not fail.
C5_ConnectedOnlyAfterSetup ==
    (connected_device = Some \/ connOneshot \in {"sent", "taken"})
        => sessExit \notin SetupFailures

\* C6: once the consumer has polled the outcome of a failed connection
\* attempt it has left the connecting state.
C6_ConnectFailureReported ==
    connectedPoll = "Closed" => ~connecting

\* C7: without a usable radio BT::init returns an error value to its caller.
C7_InitReturnsAdapterUnavailable ==
    (initResult # "none" /\ (~host.adapter \/ host.available = "Err"))
        => initResult = "Err"

\* C8: after stop_discover has sent the stop signal at most one more item,
\* the one in flight, is put on the discovery channel.
C8_AtMostOneItemAfterStop ==
    stopSignal = "sent" => discEnqueued - sentAtStop <= 1

\* C9: what the consumer has received, then what the discovery channel
\* holds, then the sighting the task is sending, are together the sightings
\* taken from the scan stream, in scan order and with their duplicates; the
\* channel never holds more than its capacity.
C9_EverySightingForwarded ==
    /\ Len(discChan) <= ChannelCapacity
    /\ discEnqueued = Len(discReceived) + Len(discChan)
    /\ discReceived \o discChan
         \o (IF discPc = "send" THEN << discDevice >> ELSE << >>)
       = scanTaken

\* C9 witness: the channel is full and the task is blocked sending a second
\* sighting of the same device.
C9_Witness ==
    /\ discPc = "send"
    /\ Len(discChan) = ChannelCapacity
    /\ discDevice = discChan[Len(discChan)]

\* C10: when the notification stream ends the sending half is dropped, and
\* from then on each receive of the consumer returns at once: a queued
\* update while there is one, closed (Disconnected) once there is none.
C10_ClosedAfterStreamEnd ==
    /\ [](sessExit = "StreamEnded" => telemTx = "dropped")
    /\ [](telemetryPoll = "Disconnected"
             => telemTx = "dropped" /\ telemChan = << >>)
    /\ [][ (sessExit = "StreamEnded" /\ connected_device = Some /\ Frame)
             => telemetryPoll' =
                   IF telemChan = << >> THEN "Disconnected" ELSE "Ok" ]_vars

\* C10 witness: the stream has ended, the consumer has drained an update and
\* its last receive reported closed.
C10_Witness ==
    /\ sessExit = "StreamEnded"
    /\ Len(historical_speeds) >= 1
    /\ telemetryPoll = "Disconnected"

\* C11: the session task ends only by a failed send or by the end of the
\* notification stream; while the receiver is held and the stream is live it
\* does not terminate.
C11_SessionEndsOnlyByCloseOrStreamEnd ==
    sessPc \in {"done", "panicked"}
        => sessExit \in {"StreamEnded", "ChannelClosed"}

\* C12: a discovery task is spawned only while no discovery task exists and
\* the consumer holds no discovery receiver, so under every sequence of
\* Discover / Stop Discovery clicks at most one discovery task is active.
C12_AtMostOneDiscoveryTask ==
    /\ [](discover_rx = None => discPc = "idle")
    /\ [][ discSpawned' # discSpawned
             => /\ discover_rx = None
                /\ discPc \in {"idle", "stopped", "panicked"} ]_vars

\* C12 witness: Discover and then Stop Discovery were clicked and the one
\* task has stopped; the consumer still holds the receiver.
C12_Witness ==
    /\ discPc = "stopped"
    /\ discover_rx = Some
    /\ discover_stop = None

\* The sightings of a history that carry the display name k.
WithName(history, k) ==
    { i \in DOMAIN history :
        (IF history[i].name = NoName THEN "UNKNOWN" ELSE history[i].name) = k }

\* The registry after a sighting d is processed on top of base: d under its
\* display name, every other entry of base as it was.
Registered(base, d) ==
    LET n == IF d.name = NoName THEN "UNKNOWN" ELSE d.name
    IN  [k \in (DOMAIN base) \cup {n} |-> IF k = n THEN d ELSE base[k]]

\* C13: the registry is keyed by display name, last writer wins: a frame
\* that processes a sighting leaves the registry (cleared first when the
\* frame's click was Stop Discovery) with that sighting under its name and
\* every other entry unchanged, a frame that processes none leaves it as it
\* was or cleared, and every entry is the latest received sighting of its name.
C13_RegistryLastWriterWins ==
    /\ [](\A k \in DOMAIN devices :
            /\ WithName(discReceived, k) # {}
            /\ devices[k] =
                 discReceived[CHOOSE i \in WithName(discReceived, k) :
                                \A j \in WithName(discReceived, k) : j <= i])
    /\ [][ \E base \in {devices, EmptyMap} :
             /\ (base = devices \/ FrameClickStopDiscovery)
             /\ devices' =
                  IF discReceived' # discReceived
                  THEN Registered(base, discReceived'[Len(discReceived')])
                  ELSE base ]_vars

\* C13 witness: two sightings with the same display name were processed and
\* the registry holds the second under that name.
C13_Witness ==
    /\ Len(discReceived) = 2
    /\ discReceived[1].name = discReceived[2].name
    /\ discReceived[1] # discReceived[2]
    /\ DOMAIN devices = {"KICKR"}
    /\ devices["KICKR"] = discReceived[2]

\* C14: a failed scan start does not crash the consumer, and neither does a
\* later stop_discover on the ended discovery task.
C14_ScanFailureDoesNotCrash ==
    discPc = "panicked" => appPc = "running"

\* C15: every well-formed notification is eventually in the consumer's
\* history, when the consumer takes at most one update per frame and frames
\* run when a repaint is requested.  As a state property: an update waits on
\* the channel of a connected consumer only while a repaint is requested or
\* the session task is about to send and request one; otherwise no frame is
\* due and the update is never taken.
C15_NoUpdateWaitsWithoutRepaint ==
    (Running /\ connected_device = Some /\ ~repaintRequested
        /\ sessPc # "send")
      => telemChan = << >>

\* C16: cancellation of discovery is cooperative.  An item the task is
\* forwarding leaves the task only by being enqueued, whether or not a stop
\* signal has been sent meanwhile; the task stops only from the head of its
\* loop, with the signal sent and no item in hand; and, with the consumer
\* running frames, a stop signal sent to a running task leads to the task's
\* termination.
C16_CooperativeCancellation ==
    /\ [][ (discPc = "send" /\ discPc' # "send")
             => /\ discPc' = "select"
                /\ discEnqueued' = discEnqueued + 1
                /\ discChan' = Append(discChan, discDevice) ]_vars
    /\ [][ (discPc # "stopped" /\ discPc' = "stopped")
             => /\ discPc = "select"
                /\ discDevice = None
                /\ stopSignal = "sent" ]_vars
    /\ (stopSignal = "sent") ~> (discPc \in {"stopped", "panicked"})

\* C16 witness: a sighting was enqueued after the stop signal was sent, and
\* the task then stopped at the head of its loop with every sighting it took
\* forwarded.
C16_Witness ==
    /\ discPc = "stopped"
    /\ discEnqueued = sentAtStop + 1
    /\ Len(scanTaken) = discEnqueued

\* C17: the session task requests a repaint exactly once for each
\* notification that decodes, and only in the step that completes the send:
\* the requests made are as many as the updates put on the channel, the
\* update still being sent has none yet, and each request comes with its
\* update appended to the channel.
C17_RepaintOncePerUpdateAfterSend ==
    /\ [](repaints = Len(historical_speeds) + Len(telemChan))
    /\ [](repaints + (IF sessPc = "send" THEN 1 ELSE 0)
            = Len(ExpectedUpdates(notified)))
    /\ [][ repaints' # repaints
             => /\ repaints' = repaints + 1
                /\ sessPc = "send"
                /\ telemChan' = Append(telemChan, pendingUpdate)
                /\ repaintRequested' ]_vars

\* C17 witness: of three notifications two decoded; two repaints were
\* requested, one update is in the history and one on the channel.
C17_Witness ==
    /\ Len(notified) = 3
    /\ sessPc = "next"
    /\ repaints = 2
    /\ Len(historical_speeds) = 1
    /\ Len(telemChan) = 1

\* C18: an Err item of the notification stream is skipped.  The step that
\* takes it puts nothing on the channel, requests no repaint and leaves the
\* task at the head of its loop with its sender alive; with an Err item last
\* in the history the task is waiting for the next item, or has ended
\* because the stream ended.
C18_ErrItemSkipped ==
    /\ [][ (Len(notified') = Len(notified) + 1
              /\ ~notified'[Len(notified')].ok)
             => /\ sessPc = "next" /\ sessPc' = "next"
                /\ telemTx' = "alive"
                /\ UNCHANGED << telemChan, repaints, repaintRequested,
                                sessExit, update, pendingUpdate >> ]_vars
    /\ []((notified # << >> /\ ~notified[Len(notified)].ok)
            => \/ sessPc = "next" /\ telemTx = "alive"
               \/ sessPc = "done" /\ sessExit = "StreamEnded")

\* C18 witness: an Err item, then a well-formed notification, whose update
\* the consumer has taken.
C18_Witness ==
    /\ Len(notified) = 2
    /\ ~notified[1].ok
    /\ WellFormed(notified[2])
    /\ History = << Reading(notified[2].bytes) >>

\* C19: the consumer initiates connect at most once, so at most one session
\* task and one telemetry channel exist: a connect is initiated only while
\* the consumer is neither connecting nor connected and no connect or
\* session task exists, connecting and connected are never both set, and a
\* connected consumer stays connected.
C19_ConnectAtMostOnce ==
    /\ [](connSpawned <= 1)
    /\ [](~(connecting /\ connected_device = Some))
    /\ []((connPc # "idle" \/ sessPc # "idle" \/ connected_device = Some)
            => connSpawned = 1)
    /\ [][ connSpawned' # connSpawned
             => /\ ~connecting
                /\ connected_device = None
                /\ connPc = "idle"
                /\ sessPc = "idle"
                /\ connecting' ]_vars
    /\ [][ connected_device = Some => connected_device' = Some ]_vars

\* C19 witness: the one connect succeeded; the consumer is connected, no
\* longer connecting, with devices still in its registry.
C19_Witness ==
    /\ connected_device = Some
    /\ ~connecting
    /\ connSpawned = 1
    /\ devices # EmptyMap
    /\ sessPc = "next"

\* C20: once stop_discover has cleared the registry and sent the stop signal
\* the registry is empty, and stays empty: sightings buffered on the channel
\* or enqueued before the task saw the signal are not inserted.
C20_RegistryEmptyAfterStop ==
    stopSignal = "sent" => devices = EmptyMap

====
